---- MODULE Spec2Model ----
(***************************************************************************)
(* State-machine model of spot_minimal_driver.py: the startup sequence of  *)
(* SpotROS2Driver.__init__, the callbacks run by rclpy.spin, the           *)
(* background state streaming thread, SpotROS2Driver.shutdown and main.    *)
(* The robot (power state, lease ownership, E-Stop) is the environment.    *)
(***************************************************************************)
EXTENDS Integers, Sequences, FiniteSets, TLC

\* ------------------------------------------------------------------ bounds
MaxRecords == 2        \* telemetry records the stream delivers
MaxTimer == 2          \* timer_callback invocations
MaxCmds == 2           \* cmd_vel messages received
MaxTime == 1           \* largest clock reading, in units of 0.1 s
MaxShutdownCalls == 2  \* shutdown() calls made by the direct-call driver

\* ------------------------------------------------------- program constants
CmdWindow == 5         \* end_time = time.time() + 0.5, in units of 0.1 s

VARIABLES
  mpc,               \* position of the main thread
  exc,               \* exception propagating on the main thread, or "none"
  spot_driver_node,  \* main's local: "None" or "node"
  robot,             \* self.robot: "None" or "robot"
  command_client,    \* self.command_client: "None" or "client"
  lease_keep_alive,  \* self.lease_keep_alive: "None", "active", "shutdown"
  estop_keep_alive,  \* self.estop_keep_alive: "None", "active", "shutdown"
  calls,             \* lifecycle calls made by the driver, in order
  errorLogged,       \* get_logger().error(...) of __init__ has run
  initExc,           \* the exception __init__ raised to main, or "none"
  spinExit,          \* how rclpy.spin was left, or "none"
  extEstopped,       \* robot is E-Stopped by an external actor
  robotPower,        \* robot side: "off" or "on"
  leaseHeld,         \* robot side: this client owns the body lease
  estopRegistered,   \* robot side: this client's E-Stop endpoint is registered
  shutdownCalls,     \* number of shutdown() invocations so far
  shutdownRaised,    \* some shutdown() invocation raised
  spc,               \* position of the state streaming thread
  rec,               \* the streaming thread's local robot_state
  nextRec,           \* number of records the stream has delivered
  latest_state,      \* self._latest_state
  state_lock,        \* self._state_lock: "free", "stream" or "timer"
  written,           \* records written to the cache, in order of completion
  robot_state,       \* timer_callback's local robot_state
  readAt,            \* Len(written) when timer_callback last read the cache
  timerCount,        \* timer_callback invocations so far
  published,         \* transforms sent by publish_transform, in order
  intents,           \* number of velocity intents received
  intent,            \* the last intent received, with its issue time
  sent,              \* number of robot_command calls made
  command,           \* the last robot_command call: command and end_time_secs
  cmdErrors,         \* 'Failed to send velocity command' log lines
  now                \* last reading of time.time()

lifecycleVars == <<mpc, exc, spot_driver_node, robot, command_client,
                   lease_keep_alive, estop_keep_alive, calls, errorLogged,
                   initExc, spinExit, shutdownCalls, shutdownRaised>>
robotVars == <<extEstopped, robotPower, leaseHeld, estopRegistered>>
streamVars == <<spc, rec, nextRec, latest_state, state_lock, written>>
timerVars == <<robot_state, readAt, timerCount, published>>
cmdVars == <<intents, intent, sent, command, cmdErrors, now>>
vars == <<lifecycleVars, robotVars, streamVars, timerVars, cmdVars>>

\* ----------------------------------------------------------------- helpers
Count(s, x) == Cardinality({i \in 1..Len(s) : s[i] = x})
Has(s, x) == \E i \in 1..Len(s) : s[i] = x
First(s, x) == CHOOSE i \in 1..Len(s) : s[i] = x /\ \A j \in 1..(i-1) : s[j] # x
Before(s, x, y) == Has(s, x) /\ Has(s, y) /\ First(s, x) < First(s, y)

\* except (RpcError, ResponseError, LeaseError)
SDKErrors == {"RpcError", "ResponseError", "LeaseError"}

\* ---------------------------------------------------------------- __init__
\* The calls of the try block in program order.
StartupOrder == <<"create_robot", "authenticate", "wait_for_sync", "is_estopped",
                  "ensure_client", "LeaseKeepAlive", "force_simple_setup",
                  "power_on", "is_powered_on", "blocking_stand">>

NextStepSwapped(step) ==
  CASE step = "ensure_client" -> "force_simple_setup"
    [] step = "force_simple_setup" -> "power_on"
    [] step = "power_on" -> "LeaseKeepAlive"
    [] step = "LeaseKeepAlive" -> "is_powered_on"
    [] step = "blocking_stand" -> "ros_setup"
    [] OTHER -> StartupOrder[First(StartupOrder, step) + 1]

\* The statement that runs after `step` returns normally.
NextStep(step) ==
  IF step = "blocking_stand" THEN "ros_setup"
  ELSE StartupOrder[First(StartupOrder, step) + 1]

AssertAlwaysPasses(estopped) == TRUE

\* assert not self.robot.is_estopped()
EstopAssertPasses(estopped) == ~estopped

\* A startup call returns normally.
Proceed(step) ==
  /\ mpc' = NextStep(step)
  /\ calls' = Append(calls, step)
  /\ UNCHANGED <<exc, errorLogged, initExc>>

RaiseSwallowed(step, kind) ==
  /\ mpc' = "ros_setup"
  /\ exc' = "none"
  /\ initExc' = kind
  /\ calls' = Append(calls, step)
  /\ errorLogged' = (kind \in SDKErrors)

\* A startup call raises `kind`: the except clause of __init__ logs the SDK
\* errors and re-raises; every other exception passes through it.
Raise(step, kind) ==
  /\ mpc' = "init_raised"
  /\ exc' = kind
  /\ initExc' = kind
  /\ calls' = Append(calls, step)
  /\ errorLogged' = (kind \in SDKErrors)

\* Placeholders for "no message received yet" and "no command sent yet";
\* they are read only once intents > 0, respectively sent > 0.
NoIntent == [msg |-> [linear |-> <<0, 0, 0>>, angular |-> <<0, 0, 0>>], t |-> 0]
NoCommand == [command |-> [v_x |-> 0, v_y |-> 0, v_rot |-> 0], end_time_secs |-> 0]

Init ==
  /\ mpc = "create_robot"
  /\ exc = "none"
  /\ spot_driver_node = "None"
  /\ robot = "None"
  /\ command_client = "None"
  /\ lease_keep_alive = "None"
  /\ estop_keep_alive = "None"
  /\ calls = <<>>
  /\ errorLogged = FALSE
  /\ initExc = "none"
  /\ spinExit = "none"
  /\ extEstopped \in BOOLEAN
  /\ robotPower = "off"
  /\ leaseHeld = FALSE
  /\ estopRegistered = FALSE
  /\ shutdownCalls = 0
  /\ shutdownRaised = FALSE
  /\ spc = "none"
  /\ rec = 0
  /\ nextRec = 0
  /\ latest_state = <<0, 0>>
  /\ state_lock = "free"
  /\ written = <<>>
  /\ robot_state = <<0, 0>>
  /\ readAt = 0
  /\ timerCount = 0
  /\ published = <<>>
  /\ intents = 0
  /\ intent = NoIntent
  /\ sent = 0
  /\ command = NoCommand
  /\ cmdErrors = 0
  /\ now = 0

\* self.robot = sdk.create_robot(self.hostname)
CreateRobot ==
  /\ mpc = "create_robot"
  /\ robot' = "robot"
  /\ Proceed("create_robot")
  /\ UNCHANGED <<spot_driver_node, command_client, lease_keep_alive, estop_keep_alive,
                 spinExit, shutdownCalls, shutdownRaised, robotVars, streamVars, timerVars, cmdVars>>

\* bosdyn.client.util.authenticate(self.robot)
Authenticate ==
  /\ mpc = "authenticate"
  /\ \/ Proceed("authenticate")
     \/ \E k \in {"RpcError", "ResponseError", "KeyboardInterrupt"} : Raise("authenticate", k)
  /\ UNCHANGED <<spot_driver_node, robot, command_client, lease_keep_alive, estop_keep_alive,
                 spinExit, shutdownCalls, shutdownRaised, robotVars, streamVars, timerVars, cmdVars>>

\* self.robot.time_sync.wait_for_sync()
WaitForSync ==
  /\ mpc = "wait_for_sync"
  /\ \/ Proceed("wait_for_sync")
     \/ \E k \in {"Other", "KeyboardInterrupt"} : Raise("wait_for_sync", k)
  /\ UNCHANGED <<spot_driver_node, robot, command_client, lease_keep_alive, estop_keep_alive,
                 spinExit, shutdownCalls, shutdownRaised, robotVars, streamVars, timerVars, cmdVars>>

\* assert not self.robot.is_estopped(), '...'
IsEstopped ==
  /\ mpc = "is_estopped"
  /\ \/ /\ EstopAssertPasses(extEstopped)
        /\ Proceed("is_estopped")
     \/ /\ ~EstopAssertPasses(extEstopped)
        /\ Raise("is_estopped", "AssertionError")
     \/ Raise("is_estopped", "RpcError")
  /\ UNCHANGED <<spot_driver_node, robot, command_client, lease_keep_alive, estop_keep_alive,
                 spinExit, shutdownCalls, shutdownRaised, robotVars, streamVars, timerVars, cmdVars>>

\* self.robot.ensure_client(...) for the five service clients
EnsureClients ==
  /\ mpc = "ensure_client"
  /\ \/ /\ Proceed("ensure_client")
        /\ command_client' = "client"
     \/ /\ Raise("ensure_client", "RpcError")
        /\ UNCHANGED command_client
  /\ UNCHANGED <<spot_driver_node, robot, lease_keep_alive, estop_keep_alive,
                 spinExit, shutdownCalls, shutdownRaised, robotVars, streamVars, timerVars, cmdVars>>

\* self.lease_keep_alive = LeaseKeepAlive(lease_client, must_acquire=True, return_at_exit=True)
AcquireLease ==
  /\ mpc = "LeaseKeepAlive"
  /\ \/ /\ Proceed("LeaseKeepAlive")
        /\ lease_keep_alive' = "active"
        /\ leaseHeld' = TRUE
     \/ /\ \E k \in SDKErrors : Raise("LeaseKeepAlive", k)
        /\ UNCHANGED <<lease_keep_alive, leaseHeld>>
  /\ UNCHANGED <<spot_driver_node, robot, command_client, estop_keep_alive,
                 spinExit, shutdownCalls, shutdownRaised, extEstopped, robotPower, estopRegistered,
                 streamVars, timerVars, cmdVars>>

\* estop_endpoint.force_simple_setup(); self.estop_keep_alive = EstopKeepAlive(estop_endpoint)
AcquireEstop ==
  /\ mpc = "force_simple_setup"
  /\ \/ /\ Proceed("force_simple_setup")
        /\ estop_keep_alive' = "active"
        /\ estopRegistered' = TRUE
     \/ /\ \E k \in {"RpcError", "ResponseError"} : Raise("force_simple_setup", k)
        /\ UNCHANGED <<estop_keep_alive, estopRegistered>>
  /\ UNCHANGED <<spot_driver_node, robot, command_client, lease_keep_alive,
                 spinExit, shutdownCalls, shutdownRaised, extEstopped, robotPower, leaseHeld,
                 streamVars, timerVars, cmdVars>>

\* time.sleep(2.0); self.robot.power_on(timeout_sec=20)
PowerOn ==
  /\ mpc = "power_on"
  /\ \/ /\ leaseHeld
        /\ Proceed("power_on")
        /\ robotPower' = "on"
     \/ /\ Proceed("power_on")
        /\ UNCHANGED robotPower
     \/ /\ \E k \in {"RpcError", "ResponseError", "Other"} : Raise("power_on", k)
        /\ UNCHANGED robotPower
  /\ UNCHANGED <<spot_driver_node, robot, command_client, lease_keep_alive, estop_keep_alive,
                 spinExit, shutdownCalls, shutdownRaised, extEstopped, leaseHeld, estopRegistered,
                 streamVars, timerVars, cmdVars>>

\* assert self.robot.is_powered_on(), 'Robot power on failed.'
AssertPoweredOn ==
  /\ mpc = "is_powered_on"
  /\ \/ /\ robotPower = "on"
        /\ Proceed("is_powered_on")
     \/ /\ robotPower # "on"
        /\ Raise("is_powered_on", "AssertionError")
  /\ UNCHANGED <<spot_driver_node, robot, command_client, lease_keep_alive, estop_keep_alive,
                 spinExit, shutdownCalls, shutdownRaised, robotVars, streamVars, timerVars, cmdVars>>

\* blocking_stand(self.command_client, timeout_sec=10)
BlockingStand ==
  /\ mpc = "blocking_stand"
  /\ \/ /\ leaseHeld /\ robotPower = "on"
        /\ Proceed("blocking_stand")
     \/ \E k \in {"RpcError", "ResponseError", "Other"} : Raise("blocking_stand", k)
  /\ UNCHANGED <<spot_driver_node, robot, command_client, lease_keep_alive, estop_keep_alive,
                 spinExit, shutdownCalls, shutdownRaised, robotVars, streamVars, timerVars, cmdVars>>

\* The tail of __init__: broadcaster, cmd_vel subscription, streaming thread, timer.
RosSetup ==
  /\ mpc = "ros_setup"
  /\ mpc' = "init_ok"
  /\ calls' = Append(calls, "ros_setup")
  /\ spc' = "pull"
  /\ UNCHANGED <<exc, spot_driver_node, robot, command_client, lease_keep_alive,
                 estop_keep_alive, errorLogged, initExc, spinExit, shutdownCalls, shutdownRaised, robotVars,
                 rec, nextRec, latest_state, state_lock, written, timerVars, cmdVars>>


\* -------------------------------------------------------------------- main
\* SpotROS2Driver() raised: spot_driver_node is still None, so neither except
\* clause prints and the finally clause calls nothing. KeyboardInterrupt and the
\* SDK errors are swallowed by main; any other exception leaves main.
MainInitFailed ==
  /\ mpc = "init_raised"
  /\ mpc' = "done"
  /\ exc' = IF exc \in SDKErrors \cup {"KeyboardInterrupt"} THEN "none" ELSE exc
  /\ UNCHANGED <<spot_driver_node, robot, command_client, lease_keep_alive, estop_keep_alive,
                 calls, errorLogged, initExc, spinExit, shutdownCalls, shutdownRaised,
                 robotVars, streamVars, timerVars, cmdVars>>

ShutdownNextLeaseFirst(step) ==
  CASE step = "shutdown" -> "sd_lease"
    [] step = "sd_lease" -> "sd_power_off"
    [] step = "sd_power_off" -> "sd_estop"
    [] step = "sd_estop" -> "sd_done"

ShutdownNextEstopLast(step) ==
  CASE step = "shutdown" -> "sd_power_off"
    [] step = "sd_power_off" -> "sd_lease"
    [] step = "sd_lease" -> "sd_estop"
    [] step = "sd_estop" -> "sd_done"

\* The statements of shutdown() in program order: the power-off block, the
\* E-Stop block, the lease block, return.
ShutdownNext(step) ==
  CASE step = "shutdown" -> "sd_power_off"
    [] step = "sd_power_off" -> "sd_estop"
    [] step = "sd_estop" -> "sd_lease"
    [] step = "sd_lease" -> "sd_done"

\* shutdown() is entered.
EnterShutdown ==
  /\ mpc' = ShutdownNext("shutdown")
  /\ shutdownCalls' = shutdownCalls + 1
  /\ calls' = Append(calls, "shutdown")

LeaveSpinNoFinally(how) ==
  /\ spinExit' = how
  /\ exc' = IF how \in SDKErrors \cup {"KeyboardInterrupt", "return"} THEN "none" ELSE how
  /\ IF how \in SDKErrors \cup {"KeyboardInterrupt", "return"}
     THEN EnterShutdown
     ELSE mpc' = "done" /\ UNCHANGED <<shutdownCalls, calls>>

\* rclpy.spin is left by `how`: main's except clauses swallow KeyboardInterrupt
\* and the SDK errors, any other exception stays pending; then the finally
\* clause calls spot_driver_node.shutdown().
LeaveSpin(how) ==
  /\ spinExit' = how
  /\ exc' = IF how \in SDKErrors \cup {"KeyboardInterrupt", "return"} THEN "none" ELSE how
  /\ EnterShutdown

\* spot_driver_node = SpotROS2Driver(); if rclpy.ok(): rclpy.spin(spot_driver_node)
MainSpin ==
  /\ mpc = "init_ok"
  /\ spot_driver_node' = "node"
  /\ \/ /\ mpc' = "spin"
        /\ UNCHANGED <<exc, spinExit, shutdownCalls, calls>>
     \/ LeaveSpin("return")
  /\ UNCHANGED <<robot, command_client, lease_keep_alive, estop_keep_alive, errorLogged,
                 initExc, shutdownRaised, robotVars, streamVars, timerVars, cmdVars>>

SpinningOrReleasing == mpc \in {"spin", "sd_estop"}

\* The executor runs the node's callbacks (cmd_vel, timer) on the main thread,
\* one at a time, and only while main is inside rclpy.spin.
Spinning == mpc = "spin"

\* rclpy.spin returns because the context was shut down.
SpinReturn ==
  /\ mpc = "spin"
  /\ LeaveSpin("return")
  /\ UNCHANGED <<spot_driver_node, robot, command_client, lease_keep_alive, estop_keep_alive,
                 errorLogged, initExc, shutdownRaised, robotVars, streamVars, timerVars, cmdVars>>

\* KeyboardInterrupt is raised on the main thread while it spins; a with block
\* that holds the state lock releases it on the way out.
SpinInterrupted ==
  /\ mpc \in {"spin", "t_acquire", "t_read", "t_release", "t_publish"}
  /\ LeaveSpin("KeyboardInterrupt")
  /\ state_lock' = IF state_lock = "timer" THEN "free" ELSE state_lock
  /\ UNCHANGED <<spot_driver_node, robot, command_client, lease_keep_alive, estop_keep_alive,
                 errorLogged, initExc, shutdownRaised, robotVars,
                 spc, rec, nextRec, latest_state, written, timerVars, cmdVars>>

\* --------------------------------------------------------- cmd_vel_callback
\* geometry_msgs/Twist messages, rates in units of 0.1.
Twists == { [linear |-> <<3, 0, 7>>, angular |-> <<8, 9, 1>>],
            [linear |-> <<0, 2, 0>>, angular |-> <<0, 0, 4>>] }

\* v_x, v_y, v_rot = msg.linear.x, msg.linear.y, msg.angular.z
\* RobotCommandBuilder.synchro_velocity_command(v_x=v_x, v_y=v_y, v_rot=v_rot)
synchro_velocity_command(msg) ==
  [v_x |-> msg.linear[1], v_y |-> msg.linear[2], v_rot |-> msg.angular[3]]

EndTimeNoWindow(t) == t

\* end_time = time.time() + 0.5
EndTime(t) == t + CmdWindow

CaughtRpcOnly(outcome) == outcome = "RpcError"

\* except (RpcError, ResponseError) as e: log 'Failed to send velocity command'
Caught(outcome) == outcome \in {"RpcError", "ResponseError"}

\* The callback on message `msg`, time.time() reading `t`. It tests nothing
\* before calling robot_command; `outcome` is what that call does: the robot
\* accepts the command only while this client owns the lease and the motors
\* are on, RpcError and ResponseError are caught and logged, any other
\* exception leaves rclpy.spin.
cmd_vel_callback(msg, t, outcome) ==
  /\ Spinning
  /\ intents < MaxCmds
  /\ now' = t
  /\ intents' = intents + 1
  /\ intent' = [msg |-> msg, t |-> t]
  /\ sent' = sent + 1
  /\ command' = [command |-> synchro_velocity_command(msg), end_time_secs |-> EndTime(t)]
  /\ outcome = "ok" => (leaseHeld /\ robotPower = "on")
  /\ cmdErrors' = IF Caught(outcome) THEN cmdErrors + 1 ELSE cmdErrors
  /\ IF outcome = "ok" \/ Caught(outcome)
     THEN UNCHANGED <<mpc, exc, spinExit, shutdownCalls, calls>>
     ELSE LeaveSpin(outcome)
  /\ UNCHANGED <<spot_driver_node, robot, command_client, lease_keep_alive, estop_keep_alive,
                 errorLogged, initExc, shutdownRaised, robotVars, streamVars, timerVars>>

CmdVel ==
  \E msg \in Twists, t \in now..MaxTime,
     outcome \in {"ok", "RpcError", "ResponseError", "LeaseError"} :
       cmd_vel_callback(msg, t, outcome)

\* ------------------------------------------------- _state_streaming_thread
\* A telemetry record: the two parts of its odom-to-body pose, both stamped
\* with the record's number. <<0, 0>> stands for None.
NoState == <<0, 0>>
MkRecord(n) == <<n, n>>

WriteOneField(cur, r) == <<r[1], cur[2]>>
WriteOnce(cur, r) == IF cur = NoState THEN r ELSE cur

\* self._latest_state = robot_state
WriteState(cur, r) == r

\* The generator yields the next record.
StreamPull ==
  /\ spc = "pull" /\ mpc # "done"
  /\ nextRec < MaxRecords
  /\ nextRec' = nextRec + 1
  /\ rec' = nextRec + 1
  /\ spc' = "acquire"
  /\ UNCHANGED <<lifecycleVars, robotVars, latest_state, state_lock, written, timerVars, cmdVars>>

\* with self._state_lock:
StreamAcquire ==
  /\ spc = "acquire" /\ mpc # "done"
  /\ state_lock = "free"
  /\ state_lock' = "stream"
  /\ spc' = "write"
  /\ UNCHANGED <<lifecycleVars, robotVars, rec, nextRec, latest_state, written, timerVars, cmdVars>>

StreamWrite ==
  /\ spc = "write" /\ mpc # "done"
  /\ latest_state' = WriteState(latest_state, MkRecord(rec))
  /\ written' = Append(written, MkRecord(rec))
  /\ spc' = "release"
  /\ UNCHANGED <<lifecycleVars, robotVars, rec, nextRec, state_lock, timerVars, cmdVars>>

LockKept == "stream"

\* Leaving the with block releases self._state_lock before the next pull.
LockOnExit == "free"

StreamRelease ==
  /\ spc = "release" /\ mpc # "done"
  /\ state_lock' = LockOnExit
  /\ spc' = "pull"
  /\ UNCHANGED <<lifecycleVars, robotVars, rec, nextRec, latest_state, written, timerVars, cmdVars>>

\* The generator raises, on a transient read failure or on an unrecoverable
\* one alike (the except clause outside the loop logs and the thread ends), or
\* is exhausted (the thread ends).
StreamStops ==
  /\ spc = "pull" /\ mpc # "done"
  /\ spc' \in {"failed_transient", "failed_fatal", "ended"}
  /\ UNCHANGED <<lifecycleVars, robotVars, rec, nextRec, latest_state, state_lock, written,
                 timerVars, cmdVars>>

\* ----------------------------------------------------------- timer_callback
\* get_a_tform_b(...) and the fields publish_transform copies from it.
Transform(rs) == [translation |-> rs[1], rotation |-> rs[2]]

AlwaysHasState(rs) == TRUE

\* if robot_state:
HasState(rs) == rs # NoState

TimerStart ==
  /\ Spinning
  /\ timerCount < MaxTimer
  /\ timerCount' = timerCount + 1
  /\ mpc' = "t_acquire"
  /\ UNCHANGED <<exc, spot_driver_node, robot, command_client, lease_keep_alive,
                 estop_keep_alive, calls, errorLogged, initExc, spinExit, shutdownCalls,
                 shutdownRaised, robotVars, streamVars, robot_state, readAt, published, cmdVars>>

TimerAcquire ==
  /\ mpc = "t_acquire"
  /\ state_lock = "free"
  /\ state_lock' = "timer"
  /\ mpc' = "t_read"
  /\ UNCHANGED <<exc, spot_driver_node, robot, command_client, lease_keep_alive,
                 estop_keep_alive, calls, errorLogged, initExc, spinExit, shutdownCalls,
                 shutdownRaised, robotVars, spc, rec, nextRec, latest_state, written,
                 timerVars, cmdVars>>

\* robot_state = self._latest_state
TimerRead ==
  /\ mpc = "t_read"
  /\ robot_state' = latest_state
  /\ readAt' = Len(written)
  /\ mpc' = "t_release"
  /\ UNCHANGED <<exc, spot_driver_node, robot, command_client, lease_keep_alive,
                 estop_keep_alive, calls, errorLogged, initExc, spinExit, shutdownCalls,
                 shutdownRaised, robotVars, streamVars, timerCount, published, cmdVars>>

TimerRelease ==
  /\ mpc = "t_release"
  /\ state_lock' = "free"
  /\ mpc' = "t_publish"
  /\ UNCHANGED <<exc, spot_driver_node, robot, command_client, lease_keep_alive,
                 estop_keep_alive, calls, errorLogged, initExc, spinExit, shutdownCalls,
                 shutdownRaised, robotVars, spc, rec, nextRec, latest_state, written,
                 timerVars, cmdVars>>

\* if robot_state: ... self.publish_transform(odom_tfrom_body); the lookup or
\* the publish may raise, which leaves rclpy.spin.
TimerPublish ==
  /\ mpc = "t_publish"
  /\ \/ /\ mpc' = "spin"
        /\ published' = IF HasState(robot_state)
                        THEN Append(published, Transform(robot_state)) ELSE published
        /\ UNCHANGED <<exc, spinExit, shutdownCalls, calls>>
     \/ /\ HasState(robot_state)
        /\ LeaveSpin("Other")
        /\ UNCHANGED published
  /\ UNCHANGED <<spot_driver_node, robot, command_client, lease_keep_alive, estop_keep_alive,
                 errorLogged, initExc, shutdownRaised, robotVars, streamVars,
                 robot_state, readAt, timerCount, cmdVars>>

\* ---------------------------------------------------------------- shutdown
\* An exception leaves shutdown().
ShutdownRaise(kind) ==
  /\ mpc' = "sd_exc"
  /\ exc' = kind
  /\ shutdownRaised' = TRUE

\* if self.robot and self.robot.is_powered_on():
\*     self.robot.power_off(cut_immediately=False, timeout_sec=20)
SdPowerOff ==
  /\ mpc = "sd_power_off"
  /\ \/ /\ robot = "None" \/ robotPower # "on"
        /\ mpc' = ShutdownNext("sd_power_off")
        /\ UNCHANGED <<exc, shutdownRaised, calls, robotPower>>
     \/ /\ robot # "None" /\ robotPower = "on" /\ leaseHeld
        /\ calls' = Append(calls, "power_off")
        /\ robotPower' = "off"
        /\ mpc' = ShutdownNext("sd_power_off")
        /\ UNCHANGED <<exc, shutdownRaised>>
     \/ /\ robot # "None" /\ robotPower = "on"
        /\ calls' = Append(calls, "power_off")
        /\ ShutdownRaise("RpcError")
        /\ UNCHANGED robotPower
     \/ /\ robot # "None"
        /\ ShutdownRaise("RpcError")
        /\ UNCHANGED <<calls, robotPower>>
  /\ UNCHANGED <<spot_driver_node, robot, command_client, lease_keep_alive, estop_keep_alive,
                 errorLogged, initExc, spinExit, shutdownCalls, extEstopped, leaseHeld,
                 estopRegistered, streamVars, timerVars, cmdVars>>

\* if self.estop_keep_alive: self.estop_keep_alive.shutdown()
SdEstop ==
  /\ mpc = "sd_estop"
  /\ \/ /\ estop_keep_alive = "None"
        /\ mpc' = ShutdownNext("sd_estop")
        /\ UNCHANGED <<exc, shutdownRaised, calls, estop_keep_alive, estopRegistered>>
     \/ /\ estop_keep_alive # "None"
        /\ calls' = Append(calls, "estop_shutdown")
        /\ \/ /\ estop_keep_alive' = "shutdown"
              /\ estopRegistered' = FALSE
              /\ mpc' = ShutdownNext("sd_estop")
              /\ UNCHANGED <<exc, shutdownRaised>>
           \/ /\ ShutdownRaise("RpcError")
              /\ UNCHANGED <<estop_keep_alive, estopRegistered>>
  /\ UNCHANGED <<spot_driver_node, robot, command_client, lease_keep_alive,
                 errorLogged, initExc, spinExit, shutdownCalls, extEstopped, robotPower,
                 leaseHeld, streamVars, timerVars, cmdVars>>

\* if self.lease_keep_alive: self.lease_keep_alive.shutdown()
SdLease ==
  /\ mpc = "sd_lease"
  /\ \/ /\ lease_keep_alive = "None"
        /\ mpc' = ShutdownNext("sd_lease")
        /\ UNCHANGED <<exc, shutdownRaised, calls, lease_keep_alive, leaseHeld>>
     \/ /\ lease_keep_alive # "None"
        /\ calls' = Append(calls, "lease_shutdown")
        /\ \/ /\ lease_keep_alive' = "shutdown"
              /\ leaseHeld' = FALSE
              /\ mpc' = ShutdownNext("sd_lease")
              /\ UNCHANGED <<exc, shutdownRaised>>
           \/ /\ ShutdownRaise("RpcError")
              /\ UNCHANGED <<lease_keep_alive, leaseHeld>>
  /\ UNCHANGED <<spot_driver_node, robot, command_client, estop_keep_alive,
                 errorLogged, initExc, spinExit, shutdownCalls, extEstopped, robotPower,
                 estopRegistered, streamVars, timerVars, cmdVars>>

\* finally: ... spot_driver_node.destroy_node(); a pending exception then leaves main.
MainDestroyNode ==
  /\ mpc = "sd_done"
  /\ calls' = Append(calls, "destroy_node")
  /\ mpc' = "done"
  /\ UNCHANGED <<exc, spot_driver_node, robot, command_client, lease_keep_alive,
                 estop_keep_alive, errorLogged, initExc, spinExit, shutdownCalls,
                 shutdownRaised, robotVars, streamVars, timerVars, cmdVars>>

\* shutdown() raised inside the finally clause: destroy_node() is skipped and
\* the exception leaves main.
MainShutdownRaised ==
  /\ mpc = "sd_exc"
  /\ mpc' = "done"
  /\ UNCHANGED <<exc, spot_driver_node, robot, command_client, lease_keep_alive,
                 estop_keep_alive, calls, errorLogged, initExc, spinExit, shutdownCalls,
                 shutdownRaised, robotVars, streamVars, timerVars, cmdVars>>

\* ------------------------------------------------------------- environment
\* The robot's motors go off without the driver asking (battery, E-Stop, fault).
\* What the driver does next differs only when this happens while it spins.
EnvPowerLoss ==
  /\ mpc = "spin"
  /\ robotPower = "on"
  /\ robotPower' = "off"
  /\ UNCHANGED <<lifecycleVars, extEstopped, leaseHeld, estopRegistered,
                 streamVars, timerVars, cmdVars>>

\* Another client takes the body lease.
EnvLeaseRevoked ==
  /\ mpc = "spin"
  /\ leaseHeld
  /\ leaseHeld' = FALSE
  /\ UNCHANGED <<lifecycleVars, extEstopped, robotPower, estopRegistered,
                 streamVars, timerVars, cmdVars>>

Next ==
  \/ CreateRobot \/ Authenticate \/ WaitForSync \/ IsEstopped \/ EnsureClients
  \/ AcquireLease \/ AcquireEstop \/ PowerOn \/ AssertPoweredOn \/ BlockingStand
  \/ RosSetup
  \/ MainInitFailed \/ MainSpin \/ SpinReturn \/ SpinInterrupted
  \/ CmdVel
  \/ StreamPull \/ StreamAcquire \/ StreamWrite \/ StreamRelease \/ StreamStops
  \/ TimerStart \/ TimerAcquire \/ TimerRead \/ TimerRelease \/ TimerPublish
  \/ SdPowerOff \/ SdEstop \/ SdLease
  \/ MainDestroyNode \/ MainShutdownRaised
  \/ EnvPowerLoss \/ EnvLeaseRevoked

Spec == Init /\ [][Next]_vars

\* ------------------------------------------- shutdown() called directly
\* A caller that constructs the driver and, whether or not __init__ raised,
\* calls shutdown() on the object up to MaxShutdownCalls times.
CallShutdown ==
  /\ mpc \in {"init_raised", "init_ok", "returned"}
  /\ shutdownCalls < MaxShutdownCalls
  /\ EnterShutdown
  /\ exc' = "none"
  /\ UNCHANGED <<spot_driver_node, robot, command_client, lease_keep_alive, estop_keep_alive,
                 errorLogged, initExc, spinExit, shutdownRaised, robotVars, streamVars,
                 timerVars, cmdVars>>

ShutdownReturns ==
  /\ mpc \in {"sd_done", "sd_exc"}
  /\ mpc' = "returned"
  /\ UNCHANGED <<exc, spot_driver_node, robot, command_client, lease_keep_alive,
                 estop_keep_alive, calls, errorLogged, initExc, spinExit, shutdownCalls,
                 shutdownRaised, robotVars, streamVars, timerVars, cmdVars>>

NextDirect ==
  \/ CreateRobot \/ Authenticate \/ WaitForSync \/ IsEstopped \/ EnsureClients
  \/ AcquireLease \/ AcquireEstop \/ PowerOn \/ AssertPoweredOn \/ BlockingStand
  \/ RosSetup
  \/ CallShutdown \/ SdPowerOff \/ SdEstop \/ SdLease \/ ShutdownReturns

SpecDirect == Init /\ [][NextDirect]_vars

\* -------------------------------------------------------------- scheduling
\* The steps of the two threads that wait for nothing but the state lock are
\* taken once they can be: a running thread is scheduled, and a lock that
\* becomes free again and again is eventually given to the waiting thread.
\* Each of these steps moves its thread's position.
positions == <<mpc, spc>>

\* The program without incoming cmd_vel messages: cmd_vel_callback runs on the
\* main thread between timer callbacks, never during one.
NextTelemetry ==
  \/ CreateRobot \/ Authenticate \/ WaitForSync \/ IsEstopped \/ EnsureClients
  \/ AcquireLease \/ AcquireEstop \/ PowerOn \/ AssertPoweredOn \/ BlockingStand
  \/ RosSetup
  \/ MainInitFailed \/ MainSpin \/ SpinReturn \/ SpinInterrupted
  \/ StreamPull \/ StreamAcquire \/ StreamWrite \/ StreamRelease \/ StreamStops
  \/ TimerStart \/ TimerAcquire \/ TimerRead \/ TimerRelease \/ TimerPublish
  \/ SdPowerOff \/ SdEstop \/ SdLease
  \/ MainDestroyNode \/ MainShutdownRaised
  \/ EnvPowerLoss \/ EnvLeaseRevoked

SpecFair ==
  /\ Init /\ [][NextTelemetry]_vars
  /\ SF_positions(StreamAcquire) /\ WF_positions(StreamWrite) /\ WF_positions(StreamRelease)
  /\ SF_positions(TimerAcquire) /\ WF_positions(TimerRead) /\ WF_positions(TimerRelease)
  /\ WF_positions(TimerPublish)

\* ------------------------------------------------------------------ claims
StartupFailed == mpc = "done" /\ initExc # "none"

\* C1: when startup fails, every resource acquired before the failing step
\* (robot power, E-Stop keep-alive, lease keep-alive) has been released exactly
\* once, in reverse order of acquisition, by the time main is left.
C1_RollbackOnStartupFailure ==
  StartupFailed =>
    /\ robotPower = "on" => Count(calls, "power_off") = 1
    /\ estop_keep_alive # "None" =>
         estop_keep_alive = "shutdown" /\ Count(calls, "estop_shutdown") = 1
    /\ lease_keep_alive # "None" =>
         lease_keep_alive = "shutdown" /\ Count(calls, "lease_shutdown") = 1
    /\ (estop_keep_alive # "None" /\ lease_keep_alive # "None") =>
         Before(calls, "estop_shutdown", "lease_shutdown")

\* C2: over any sequence of shutdown() calls, on a fully or partly constructed
\* driver, none of which raises, each of power-off, E-Stop keep-alive release
\* and lease keep-alive release is performed at most once.
C2_ReleaseAtMostOnce ==
  ~shutdownRaised =>
    /\ Count(calls, "power_off") <= 1
    /\ Count(calls, "estop_shutdown") <= 1
    /\ Count(calls, "lease_shutdown") <= 1

\* C3: once shutdown() has run, whatever failed in it, the E-Stop release and
\* the lease release that apply have both been attempted, and no failure of a
\* release step has left shutdown() as an exception.
C3_BestEffortTeardown ==
  (mpc = "done" /\ shutdownCalls > 0) =>
    /\ estop_keep_alive # "None" => Has(calls, "estop_shutdown")
    /\ lease_keep_alive # "None" => Has(calls, "lease_shutdown")
    /\ ~shutdownRaised

\* C4: a velocity intent received while the lease is not held or the power
\* state is not On is dropped and reported: no robot_command call is made.
C4_DispatchOnlyWhenReady ==
  [][(intents' = intents + 1 /\ ~(leaseHeld /\ robotPower = "on"))
       => (sent' = sent /\ cmdErrors' = cmdErrors + 1)]_vars

\* C5: every value timer_callback observes is the initial empty value or one
\* complete record written by a single write, never a splice of two records.
C5_NoTornRead ==
  \/ robot_state = NoState
  \/ \E i \in 1..Len(written) : robot_state = written[i]

\* The reader holds a record while the writer, with the next record in hand,
\* waits for the lock the reader still holds.
C5_Witness ==
  /\ mpc = "t_release" /\ state_lock = "timer"
  /\ robot_state = MkRecord(1)
  /\ spc = "acquire" /\ rec = 2

\* C6: a read of the cache returns the record of the most recently completed
\* write (the empty value when no write has completed).
C6_LastWriteWins ==
  robot_state = IF readAt = 0 THEN NoState ELSE written[readAt]

\* Two records are written before the first read, which observes the second.
C6_Witness ==
  /\ timerCount = 1 /\ mpc = "t_release"
  /\ readAt = 2 /\ written = <<MkRecord(1), MkRecord(2)>>
  /\ robot_state = MkRecord(2)

\* C7: when lease acquisition fails with LeaseError after authentication and
\* time-sync succeeded, the session is torn down by the driver's teardown,
\* E-Stop registration, power-on and stand are never attempted, and the
\* LeaseError reaches main.
C7_LeaseFailureTearsDown ==
  (mpc = "done" /\ initExc = "LeaseError" /\ calls[Len(calls)] = "LeaseKeepAlive") =>
    /\ Has(calls, "shutdown")
    /\ ~Has(calls, "force_simple_setup")
    /\ ~Has(calls, "power_on")
    /\ ~Has(calls, "blocking_stand")

\* C8: every velocity intent received results in exactly one robot_command
\* call, carrying the intent's three rates and end time = issue time + 0.5 s;
\* a failed send is not repeated.
C8_OneCommandPerIntent ==
  /\ sent = intents
  /\ intents > 0 =>
       /\ command.command.v_x = intent.msg.linear[1]
       /\ command.command.v_y = intent.msg.linear[2]
       /\ command.command.v_rot = intent.msg.angular[3]
       /\ command.end_time_secs = intent.t + CmdWindow

\* Two intents were received, one send failed and was logged, two calls made.
C8_Witness ==
  /\ intents = 2 /\ sent = 2 /\ cmdErrors = 1
  /\ intent.t = 1 /\ command.end_time_secs = 6

\* C9: when the robot is E-Stopped by an external actor at the startup check,
\* startup ends there: no lease, no E-Stop endpoint, no power-on, no stand.
C9_ExternalEstopRefused ==
  (extEstopped /\ Has(calls, "is_estopped")) =>
    /\ mpc \in {"init_raised", "done"}
    /\ initExc \in {"AssertionError", "RpcError"}
    /\ lease_keep_alive = "None" /\ ~leaseHeld
    /\ estop_keep_alive = "None" /\ ~estopRegistered
    /\ robotPower = "off"
    /\ \A c \in {"LeaseKeepAlive", "force_simple_setup", "power_on", "blocking_stand"} :
         ~Has(calls, c)

C9_Witness ==
  /\ extEstopped /\ mpc = "done"
  /\ initExc = "AssertionError"
  /\ calls[Len(calls)] = "is_estopped"

\* C10: the startup calls are made in the order authenticate, time-sync,
\* E-Stop check, lease, E-Stop endpoint, power-on, stand, each only after every
\* earlier one returned normally; power-on is attempted only with both
\* keep-alives active, stand only after the power check has passed.
C10_StartupOrder ==
  /\ \A i \in 1..Len(calls) :
       (\E j \in 1..Len(StartupOrder) : calls[i] = StartupOrder[j]) =>
         /\ i <= Len(StartupOrder)
         /\ calls[i] = StartupOrder[i]
  /\ initExc # "none" => \E j \in 1..Len(StartupOrder) : calls[Len(calls)] = StartupOrder[j]
  /\ mpc = "power_on" => (lease_keep_alive = "active" /\ estop_keep_alive = "active")
  /\ Has(calls, "power_on") => (lease_keep_alive # "None" /\ estop_keep_alive # "None")
  /\ mpc = "blocking_stand" => (calls[Len(calls)] = "is_powered_on" /\ initExc = "none")
  /\ Has(calls, "blocking_stand") => Before(calls, "is_powered_on", "blocking_stand")

C10_Witness ==
  /\ mpc = "init_ok"
  /\ calls = StartupOrder \o <<"ros_setup">>
\* Position of a release step in the order power-off, E-Stop, lease.
ReleaseRank(c) ==
  CASE c = "power_off" -> 1 [] c = "estop_shutdown" -> 2 [] c = "lease_shutdown" -> 3
    [] OTHER -> 0

\* C11: the release steps shutdown() performs occur in the order power-off,
\* E-Stop keep-alive release, lease keep-alive release; once the lease has been
\* released, a power-off of a powered-on robot has been issued before it and
\* has returned (the robot is off).
C11_ShutdownOrder ==
  /\ \A i, j \in 1..Len(calls) :
       (i < j /\ ReleaseRank(calls[i]) > 0 /\ ReleaseRank(calls[j]) > 0) =>
         ReleaseRank(calls[i]) < ReleaseRank(calls[j])
  /\ Has(calls, "lease_shutdown") => robotPower = "off"
  /\ Has(calls, "estop_shutdown") => robotPower = "off"

C11_Witness ==
  /\ mpc = "done"
  /\ Len(calls) > 5
  /\ SubSeq(calls, Len(calls) - 4, Len(calls)) =
       <<"shutdown", "power_off", "estop_shutdown", "lease_shutdown", "destroy_node">>
\* A power-off issued by the driver has returned normally.
PowerOffCompleted == Has(calls, "power_off") /\ robotPower = "off"

\* C12: in every reachable state, if the driver has issued power-on and no
\* power-off issued by the driver has completed, the lease keep-alive is still
\* active; power-on and power-off are issued only with the keep-alive active.
C12_LeaseHeldUntilPowerOff ==
  /\ (Has(calls, "power_on") /\ ~PowerOffCompleted) => lease_keep_alive = "active"
  /\ mpc = "power_on" => lease_keep_alive = "active"
  /\ (mpc = "sd_power_off" /\ robot # "None" /\ robotPower = "on") =>
       lease_keep_alive = "active"

\* C12 as amended: if the driver has issued power-on and the robot is still
\* powered on (no power-off by the driver has returned, and shutdown() has not
\* found the robot already off), the lease keep-alive is still active; power-on
\* and power-off are issued only with the keep-alive active.
C12_LeaseHeldWhilePowered ==
  /\ (Has(calls, "power_on") /\ robotPower = "on") => lease_keep_alive = "active"
  /\ mpc = "power_on" => lease_keep_alive = "active"
  /\ (mpc = "sd_power_off" /\ robot # "None" /\ robotPower = "on") =>
       lease_keep_alive = "active"

\* The driver's power-off has returned and the lease keep-alive is still active.
C12_Witness ==
  /\ mpc = "sd_estop"
  /\ calls[Len(calls)] = "power_off" /\ robotPower = "off"
  /\ lease_keep_alive = "active" /\ leaseHeld
\* The streaming thread is inside its read loop.
StreamRunning == spc \in {"pull", "acquire", "write", "release"}

\* C13: the E-Stop keep-alive and the lease keep-alive are released only once
\* the streaming thread has left its read loop (shutdown has cancelled and
\* joined it): no release call is made while the thread is still in the loop.
C13_StreamStoppedBeforeRelease ==
  [][(calls' # calls /\ calls'[Len(calls')] \in {"estop_shutdown", "lease_shutdown"})
       => ~StreamRunning]_vars
\* C14: a transient read failure of the telemetry stream does not end the
\* streaming thread: it logs and keeps reading, so the thread is never found
\* terminated by a transient failure.
C14_TransientFailureContinues == spc # "failed_transient"
\* The streaming thread has terminated.
StreamDead == spc \in {"failed_transient", "failed_fatal", "ended"}

\* C15: the step that ends the streaming thread leaves the main thread and the
\* cache as they are; once the thread has ended it is never restarted and the
\* cache keeps its value; every timer tick that then reads the cache reads that
\* value, and a tick that completes with it publishes its transform, or nothing
\* when the cache is empty.
C15_StaleStateServed ==
  [][/\ (~StreamDead /\ StreamDead') => (mpc' = mpc /\ latest_state' = latest_state)
     /\ StreamDead =>
          /\ spc' = spc /\ latest_state' = latest_state /\ written' = written
          /\ (mpc = "t_read" /\ mpc' = "t_release") => robot_state' = latest_state
          /\ (mpc = "t_publish" /\ mpc' = "spin" /\ robot_state = latest_state) =>
               published' = IF latest_state = NoState THEN published
                            ELSE Append(published, [translation |-> latest_state[1],
                                                    rotation |-> latest_state[2]])]_vars

\* The thread has ended after one record; two ticks have published that record.
C15_Witness ==
  /\ StreamDead /\ mpc = "spin"
  /\ written = <<MkRecord(1)>>
  /\ published = <<[translation |-> 1, rotation |-> 1], [translation |-> 1, rotation |-> 1]>>
\* The main thread is inside timer_callback.
InTimer == mpc \in {"t_acquire", "t_read", "t_release", "t_publish"}

\* The state lock is held only across the cache access itself: never by the
\* streaming thread while it waits for the network, and timer_callback makes
\* no robot call.
LockNotHeldAcrossIO ==
  /\ state_lock = "stream" <=> spc \in {"write", "release"}
  /\ state_lock = "timer" <=> mpc \in {"t_read", "t_release"}

\* C16: timer_callback never blocks on network I/O: the state lock is never
\* held by the streaming thread while that thread is blocked pulling the next
\* record, timer_callback itself makes no robot call, and every timer_callback
\* that starts eventually leaves (it gets the lock and completes, or is
\* interrupted).
C16_TimerNeverBlocksOnIO ==
  /\ []LockNotHeldAcrossIO
  /\ [][InTimer => (sent' = sent /\ calls' \in {calls, Append(calls, "shutdown")}
                      /\ UNCHANGED robotVars)]_vars
  /\ InTimer ~> ~InTimer

\* timer_callback waits for the lock while the streaming thread holds it.
C16_Witness ==
  /\ mpc = "t_acquire" /\ state_lock = "stream" /\ spc = "write"
\* One of the concurrent tasks exists or has left a trace: the streaming
\* thread, a cmd_vel callback, a timer callback.
TasksLaunched ==
  \/ spc # "none" \/ intents > 0 \/ sent > 0 \/ timerCount > 0
  \/ written # <<>> \/ latest_state # NoState \/ published # <<>>

\* C17: the subscription, the streaming thread and the timer are created only
\* after all ten startup calls, stand included, have returned normally; after a
\* failed startup none of them exists, no command is sent, nothing is cached
\* and nothing is published.
C17_TasksOnlyAfterStartup ==
  /\ TasksLaunched =>
       /\ initExc = "none"
       /\ Len(calls) > Len(StartupOrder)
       /\ SubSeq(calls, 1, Len(StartupOrder)) = StartupOrder
       /\ calls[Len(StartupOrder) + 1] = "ros_setup"
  /\ initExc # "none" => ~TasksLaunched

\* The run ended after stand, the last startup call, had failed.
C17_Witness ==
  /\ mpc = "done" /\ initExc = "RpcError"
  /\ calls = StartupOrder
  /\ ~TasksLaunched
\* C18: a robot_command call that fails with RpcError or ResponseError is
\* confined to its callback: the error is logged, the call is made once and
\* not repeated, lease, E-Stop, power and the cached state are untouched, the
\* node keeps spinning (spin is never left with one of these two errors), and
\* the next intent is sent as one fresh command.
C18_SendFailureIsolated ==
  [][/\ cmdErrors' = cmdErrors + 1 =>
          /\ sent' = sent + 1 /\ intents' = intents + 1
          /\ mpc = "spin" /\ mpc' = "spin" /\ exc' = exc /\ spinExit' = spinExit
          /\ UNCHANGED <<lease_keep_alive, estop_keep_alive, robotVars,
                         latest_state, calls, shutdownCalls>>
     /\ sent' # sent => (spinExit' = spinExit \/ spinExit' \notin {"RpcError", "ResponseError"})
     /\ (cmdErrors > 0 /\ intents' = intents + 1) =>
          /\ sent' = sent + 1
          /\ command' = [command |-> synchro_velocity_command(intent'.msg),
                         end_time_secs |-> intent'.t + CmdWindow]]_vars

\* A first send failed and was logged, the node kept spinning and the second
\* intent went out as well.
C18_Witness ==
  /\ mpc = "spin" /\ cmdErrors = 1 /\ intents = 2 /\ sent = 2
  /\ spinExit = "none" /\ lease_keep_alive = "active" /\ robotPower = "on"
\* The ways main can leave rclpy.spin.
SpinExits == {"return", "KeyboardInterrupt", "Other"} \cup SDKErrors

\* C19: after a successful construction, however main leaves the spin loop
\* (return, KeyboardInterrupt, RpcError/ResponseError/LeaseError, any other
\* exception), shutdown() is invoked exactly once; after a failed construction
\* it is invoked zero times.
C19_ShutdownExactlyOnce ==
  /\ shutdownCalls = Count(calls, "shutdown")
  /\ spinExit \in SpinExits \cup {"none"}
  /\ spinExit # "none" => (initExc = "none" /\ shutdownCalls = 1)
  /\ spinExit = "none" => shutdownCalls = 0
  /\ initExc # "none" => shutdownCalls = 0
  /\ mpc = "done" => shutdownCalls = (IF initExc = "none" THEN 1 ELSE 0)

\* main ended after an exception that no except clause of main names had left
\* spin: shutdown() was still called once.
C19_Witness ==
  /\ mpc = "done" /\ spinExit = "Other" /\ exc = "Other"
  /\ shutdownCalls = 1 /\ ~shutdownRaised
\* C20: once shutdown() has been entered no robot_command call is made and no
\* callback runs: every further step is either a step of main through
\* shutdown and the finally clause or a step of the streaming thread, which
\* touches nothing but its own position, the lock and the state cache.
C20_NoCommandAfterShutdownBegun ==
  [][shutdownCalls > 0 =>
       /\ UNCHANGED <<cmdVars, timerVars>>
       /\ \/ mpc' # mpc /\ UNCHANGED streamVars
          \/ UNCHANGED <<lifecycleVars, robotVars>>]_vars

\* The streaming thread is about to write the cache while shutdown(), entered
\* after a command had been sent, has already powered the robot off.
C20_Witness ==
  /\ mpc = "sd_estop" /\ Has(calls, "power_off") /\ sent > 0
  /\ spc = "write" /\ state_lock = "stream"
====
